---------------------------- MODULE Spec2Model ----------------------------
(***************************************************************************)
(* A model of IceUtilInternal::IconvStringConverter<charT>                 *)
(* (cpp/include/IceUtil/IconvStringConverter.h): the per-thread pair of    *)
(* iconv descriptors kept in a pthread key, and the two grow-and-retry     *)
(* conversion loops toUTF8 and fromUTF8.                                   *)
(*                                                                         *)
(* Memory is modelled at byte level.  A pointer into a buffer is the       *)
(* offset from the buffer's start, so a relocation by realloc/resize is    *)
(* invisible, exactly as it is to code that only keeps the pointers the    *)
(* buffer hands back.  A charT is Width bytes, little endian.              *)
(***************************************************************************)
EXTENDS Integers, Sequences, FiniteSets, TLC

\* ------------------------------------------------------------------ bounds
\* Longest source string handed to toUTF8, in characters of the internal code.
MaxLen == 3
\* Longest byte range handed to fromUTF8 that is not the output of a toUTF8.
MaxBytes == 3
\* Longest destination string on entry to fromUTF8, in charT units.
MaxEntry == 2
\* iconv_open may succeed this many times in one run.
MaxCds == 6

\* ------------------------------------------------------- program constants
\* The floor of every capacity request: std::max(inbytesleft, size_t(4)).
MinCapacity == 4

\* A null pointer, where pointers are offsets.
NullPtr == -1
\* No exception.
NoEx == [type |-> "none", reason |-> <<>>]
\* The null value of the thread-specific key: no pair.
NoPair == [first |-> 0, second |-> 0]
Threads == {"t1", "t2"}
ExternalCode == "UTF-8"

Max(a, b) == IF a >= b THEN a ELSE b

\* The template instantiations and constructor arguments explored:
\* code is _internalCode, w is sizeof(charT).
Configs ==
    { [code |-> "ISO-8859-1", w |-> 1],
      [code |-> "UTF-16LE", w |-> 1],
      [code |-> "UTF-16LE", w |-> 2],
      [code |-> "no-such-code", w |-> 1] }

\* ------------------------------------------------------------ iconv engine
\* The codes the conversion engine knows.
KnownCodes == {"UTF-8", "ISO-8859-1", "UTF-16LE"}

Cont(b) == b >= 128 /\ b <= 191

\* The next character of `in` (a non-empty byte sequence) read in encoding
\* `code`: its code point cp and byte length n, or EILSEQ for an invalid
\* sequence, or EINVAL for a sequence the input ends in the middle of.
\* The repertoire is the Basic Multilingual Plane.
DecodeNext(code, in) ==
    LET b == in[1]
        len == Len(in)
    IN CASE code = "ISO-8859-1" -> [st |-> "ok", cp |-> b, n |-> 1]
         [] code = "UTF-16LE" ->
              IF len < 2 THEN [st |-> "EINVAL", cp |-> 0, n |-> 0]
              ELSE LET u == in[1] + 256 * in[2]
                   IN IF u >= 55296 /\ u <= 57343
                      THEN [st |-> "EILSEQ", cp |-> 0, n |-> 0]
                      ELSE [st |-> "ok", cp |-> u, n |-> 2]
         [] OTHER -> \* UTF-8
              IF b < 128 THEN [st |-> "ok", cp |-> b, n |-> 1]
              ELSE IF b >= 194 /\ b <= 223
              THEN IF len < 2 THEN [st |-> "EINVAL", cp |-> 0, n |-> 0]
                   ELSE IF ~Cont(in[2]) THEN [st |-> "EILSEQ", cp |-> 0, n |-> 0]
                   ELSE [st |-> "ok", cp |-> (b - 192) * 64 + (in[2] - 128), n |-> 2]
              ELSE IF b >= 224 /\ b <= 239
              THEN IF len >= 2 /\ ~Cont(in[2]) THEN [st |-> "EILSEQ", cp |-> 0, n |-> 0]
                   ELSE IF len >= 3 /\ ~Cont(in[3]) THEN [st |-> "EILSEQ", cp |-> 0, n |-> 0]
                   ELSE IF len < 3 THEN [st |-> "EINVAL", cp |-> 0, n |-> 0]
                   ELSE LET c == (b - 224) * 4096 + (in[2] - 128) * 64 + (in[3] - 128)
                        IN IF c < 2048 \/ (c >= 55296 /\ c <= 57343)
                           THEN [st |-> "EILSEQ", cp |-> 0, n |-> 0]
                           ELSE [st |-> "ok", cp |-> c, n |-> 3]
              ELSE [st |-> "EILSEQ", cp |-> 0, n |-> 0]

\* Code point cp written in encoding `code`; <<>> when `code` has no such
\* character (every character is at least one byte long).
EncodeChar(code, cp) ==
    CASE code = "ISO-8859-1" -> IF cp < 256 THEN <<cp>> ELSE <<>>
      [] code = "UTF-16LE" -> <<cp % 256, cp \div 256>>
      [] OTHER -> \* UTF-8
           IF cp < 128 THEN <<cp>>
           ELSE IF cp < 2048 THEN <<192 + (cp \div 64), 128 + (cp % 64)>>
           ELSE <<224 + (cp \div 4096), 128 + ((cp \div 64) % 64), 128 + (cp % 64)>>

\* iconv(cd, &inbuf, &inbytesleft, &outbuf, &outbytesleft) on a descriptor
\* converting `from` -> `to`: whole characters are converted while the next
\* one fits in the output window.  count is 0 when the input is used up and
\* -1 otherwise, with errno E2BIG (the next character does not fit), EILSEQ
\* (invalid or unconvertible) or EINVAL (incomplete at the end of the input).
\* `in` is the input left, `out` the bytes written, `outleft` the room left.
RECURSIVE IconvRun(_, _, _, _, _)
IconvRun(from, to, in, outleft, out) ==
    IF in = <<>>
    THEN [count |-> 0, errno |-> "0", in |-> in, out |-> out, outleft |-> outleft]
    ELSE LET d == DecodeNext(from, in)
         IN IF d.st # "ok"
            THEN [count |-> -1, errno |-> d.st, in |-> in, out |-> out, outleft |-> outleft]
            ELSE LET e == EncodeChar(to, d.cp)
                 IN IF e = <<>>
                    THEN [count |-> -1, errno |-> "EILSEQ", in |-> in, out |-> out,
                          outleft |-> outleft]
                    ELSE IF Len(e) > outleft
                    THEN [count |-> -1, errno |-> "E2BIG", in |-> in, out |-> out,
                          outleft |-> outleft]
                    ELSE IconvRun(from, to, SubSeq(in, d.n + 1, Len(in)),
                                  outleft - Len(e), out \o e)

Iconv(cd, in, outleft) == IconvRun(cd.from, cd.to, in, outleft, <<>>)


\* ------------------------------------------------------------------- state
VARIABLES
    cfg,      \* the instantiation: [code |-> _internalCode, w |-> sizeof(charT)]
    conv,     \* the converter: "none", "alive", "failed" (constructor threw), "destroyed"
    ctorEx,   \* what the constructor threw, or none
    keyLive,  \* the pthread key _key exists (created and not yet deleted)
    tls,      \* per thread, the value stored under _key: NoPair or the pair it points to
    cds,      \* every iconv_t ever opened, by number: [from, to, st, by, shift, closes, failed]
    thr,      \* per thread: "running" or "exited"
    pc,       \* per thread, the position in toUTF8/fromUTF8: "idle", "reset", "loop", "done"
    call,     \* per thread, the arguments and locals of the call in progress
    ret,      \* per thread, how its last call ended
    hist      \* per thread, what getDescriptors has done so far (history only)

vars == <<cfg, conv, ctorEx, keyLive, tls, cds, thr, pc, call, ret, hist>>

\* ------------------------------------------------------------- descriptors
Exception(type, reason) == [type |-> type, reason |-> reason]

\* iconv_open(tocode, fromcode): the engine must know both codes, and the
\* environment must grant the descriptor (envOk: memory, open-file limit).
IconvOpenOk(tocode, fromcode, envOk) ==
    envOk /\ tocode \in KnownCodes /\ fromcode \in KnownCodes

\* failed: whether a conversion call on the descriptor has ended in a failure.
NewCd(from, to, by) ==
    [from |-> from, to |-> to, st |-> "open", by |-> by, shift |-> "initial", closes |-> 0,
     failed |-> FALSE]

\* iconv_close(cd)
IconvClose(c, h) ==
    [c EXCEPT ![h] = [@ EXCEPT !.st = "closed", !.closes = @ + 1]]

\* close(std::pair<iconv_t, iconv_t>)
Close(c, cdp) == IconvClose(IconvClose(c, cdp.first), cdp.second)

\* cleanupKey(void* val): close(*cdp); delete cdp.
CleanupKey(c, val) == Close(c, val)

\* createDescriptors() that forgets iconv_close(cdp.first) when the second
\* iconv_open fails.
CreateDescriptorsLeak(c, code, env1, env2, by) ==
    IF ~IconvOpenOk(code, ExternalCode, env1)
    THEN [cds |-> c, pair |-> NoPair,
          ex |-> Exception("IllegalConversionException",
                           <<"iconv cannot convert from", ExternalCode, "to", code>>)]
    ELSE LET c1 == Append(c, NewCd(ExternalCode, code, by))
         IN IF ~IconvOpenOk(ExternalCode, code, env2)
            THEN [cds |-> c1, pair |-> NoPair,
                  ex |-> Exception("IllegalConversionException",
                                   <<"iconv cannot convert from", code, "to", ExternalCode>>)]
            ELSE LET c2 == Append(c1, NewCd(code, ExternalCode, by))
                 IN [cds |-> c2, pair |-> [first |-> Len(c1), second |-> Len(c2)],
                     ex |-> NoEx]

\* createDescriptors() that does not test the second iconv_open's result and
\* returns the pair with iconv_t(-1) in it.
CreateDescriptorsPartial(c, code, env1, env2, by) ==
    IF ~IconvOpenOk(code, ExternalCode, env1)
    THEN [cds |-> c, pair |-> NoPair,
          ex |-> Exception("IllegalConversionException",
                           <<"iconv cannot convert from", ExternalCode, "to", code>>)]
    ELSE LET c1 == Append(c, NewCd(ExternalCode, code, by))
         IN IF ~IconvOpenOk(ExternalCode, code, env2)
            THEN [cds |-> c1, pair |-> [first |-> Len(c1), second |-> 0], ex |-> NoEx]
            ELSE LET c2 == Append(c1, NewCd(code, ExternalCode, by))
                 IN [cds |-> c2, pair |-> [first |-> Len(c1), second |-> Len(c2)],
                     ex |-> NoEx]

\* createDescriptors() run by `by` on descriptor table c; env1 and env2 say
\* whether the environment grants the first and the second iconv_open.
\* The result: the table afterwards, the pair returned, the exception thrown.
CreateDescriptors(c, code, env1, env2, by) ==
    IF ~IconvOpenOk(code, ExternalCode, env1)
    THEN [cds |-> c, pair |-> NoPair,
          ex |-> Exception("IllegalConversionException",
                           <<"iconv cannot convert from", ExternalCode, "to", code>>)]
    ELSE LET c1 == Append(c, NewCd(ExternalCode, code, by))
             first == Len(c1)
         IN IF ~IconvOpenOk(ExternalCode, code, env2)
            THEN [cds |-> IconvClose(c1, first), pair |-> NoPair,
                  ex |-> Exception("IllegalConversionException",
                                   <<"iconv cannot convert from", code, "to", ExternalCode>>)]
            ELSE LET c2 == Append(c1, NewCd(code, ExternalCode, by))
                 IN [cds |-> c2, pair |-> [first |-> first, second |-> Len(c2)],
                     ex |-> NoEx]

\* getDescriptors() that never looks the pair up and opens one on every call.
GetDescriptorsNoReuse(t, env1, env2, regOk) ==
    LET r == CreateDescriptors(cds, cfg.code, env1, env2, t)
    IN IF r.ex # NoEx
       THEN [cds |-> r.cds, tls |-> tls, pair |-> NoPair, ex |-> r.ex, how |-> "openfail"]
       ELSE IF ~regOk
       THEN [cds |-> r.cds, tls |-> tls, pair |-> r.pair,
             ex |-> Exception("ThreadSyscallException", <<"pthread_setspecific">>),
             how |-> "regfail"]
       ELSE [cds |-> r.cds, tls |-> [tls EXCEPT ![t] = r.pair], pair |-> r.pair,
             ex |-> NoEx, how |-> "created"]

\* getDescriptors() that keeps one pair for the whole process: a thread
\* without a pair takes the pair another thread has registered.
GetDescriptorsShared(t, env1, env2, regOk) ==
    LET owners == {u \in Threads : tls[u] # NoPair}
    IN IF owners # {}
       THEN [cds |-> cds, tls |-> tls, pair |-> tls[CHOOSE u \in owners : TRUE],
             ex |-> NoEx, how |-> "hit"]
       ELSE GetDescriptorsNoReuse(t, env1, env2, regOk)

\* getDescriptors() on thread t; regOk says whether pthread_setspecific
\* succeeds.  The result: descriptor table, TLS, pair returned, exception,
\* and what was done ("hit", "created", "openfail", "regfail").
GetDescriptors(t, env1, env2, regOk) ==
    IF tls[t] # NoPair
    THEN [cds |-> cds, tls |-> tls, pair |-> tls[t], ex |-> NoEx, how |-> "hit"]
    ELSE LET r == CreateDescriptors(cds, cfg.code, env1, env2, t)
         IN IF r.ex # NoEx
            THEN [cds |-> r.cds, tls |-> tls, pair |-> NoPair, ex |-> r.ex, how |-> "openfail"]
            ELSE IF ~regOk
            THEN [cds |-> r.cds, tls |-> tls, pair |-> r.pair,
                  ex |-> Exception("ThreadSyscallException", <<"pthread_setspecific">>),
                  how |-> "regfail"]
            ELSE [cds |-> r.cds, tls |-> [tls EXCEPT ![t] = r.pair], pair |-> r.pair,
                  ex |-> NoEx, how |-> "created"]

\* ------------------------------------------------------ calls and results
NoCall ==
    [op |-> "none", cd |-> 0, src |-> <<>>, entry |-> <<>>, rtOf |-> <<>>,
     inpos |-> 0, inbytesleft |-> 0, outbuf |-> NullPtr, outleft |-> 0,
     count |-> 0, errno |-> "0", mem |-> <<>>,
     iters |-> 0, req |-> 0, win |-> NullPtr, grown |-> 0, peak |-> 0]

NoRet == [ex |-> NoEx, val |-> <<>>, cursor |-> NullPtr, call |-> NoCall]

\* calls: getDescriptors calls so far (2 stands for two or more); okPair: the
\* pair the thread registered first; lastHow, lastPair: what the last
\* getDescriptors did and returned; pairs: pairs opened; regs: pairs registered.
NoHist ==
    [calls |-> 0, okPair |-> NoPair, lastHow |-> "none", lastPair |-> NoPair,
     pairs |-> 0, regs |-> 0]

Sat2(n) == IF n >= 2 THEN 2 ELSE n

\* The history after one more getDescriptors with result g.
Record(h, g) ==
    [calls |-> Sat2(h.calls + 1),
     okPair |-> IF h.okPair = NoPair /\ g.how = "created" THEN g.pair ELSE h.okPair,
     lastHow |-> g.how,
     lastPair |-> g.pair,
     pairs |-> IF g.how \in {"created", "regfail"} THEN Sat2(h.pairs + 1) ELSE h.pairs,
     regs |-> IF g.how = "created" THEN Sat2(h.regs + 1) ELSE h.regs]

\* --------------------------------------------------------------- lifecycle
\* Thread t is between calls and has let go of its last call's result.
Idle(t) == thr[t] = "running" /\ pc[t] = "idle" /\ ret[t] = NoRet

CanOpen == Len(cds) + 2 <= MaxCds

\* IconvStringConverter(const char* internalCode), run by thread t.
Construct(t) ==
    /\ conv = "none"
    /\ Idle(t)
    /\ CanOpen
    /\ \E fail \in {"none", "first", "second", "key"} :
         LET r == CreateDescriptors(cds, cfg.code, fail # "first", fail # "second", "ctor")
             keyOk == fail # "key"
         IN IF r.ex # NoEx
            THEN /\ cds' = r.cds
                 /\ conv' = "failed"
                 /\ ctorEx' = Exception("IconvInitializationException", r.ex.reason)
                 /\ keyLive' = keyLive
            ELSE /\ cds' = Close(r.cds, r.pair)
                 /\ IF keyOk
                    THEN conv' = "alive" /\ keyLive' = TRUE /\ ctorEx' = ctorEx
                    ELSE /\ conv' = "failed"
                         /\ keyLive' = keyLive
                         /\ ctorEx' = Exception("ThreadSyscallException",
                                                <<"pthread_key_create">>)
    /\ UNCHANGED <<cfg, tls, thr, pc, call, ret, hist>>

\* A destructor that reclaims every thread's pair.
DtorAllSlots(t) == Threads

\* The threads whose slot ~IconvStringConverter() run by t looks at.
DtorSlots(t) == {t}

\* A destructor that closes t's pair and leaves the key in place.
DestroyKeepsKey(t) ==
    /\ conv = "alive"
    /\ Idle(t)
    /\ \A u \in Threads : pc[u] = "idle"
    /\ cds' = IF tls[t] # NoPair THEN CleanupKey(cds, tls[t]) ELSE cds
    /\ conv' = "destroyed"
    /\ UNCHANGED <<cfg, ctorEx, keyLive, tls, thr, pc, call, ret, hist>>

\* ~IconvStringConverter(), run by thread t when no call is in progress.
Destroy(t) ==
    /\ conv = "alive"
    /\ Idle(t)
    /\ \A u \in Threads : pc[u] = "idle"
    /\ LET held == {u \in DtorSlots(t) : tls[u] # NoPair}
           CloseAll[S \in SUBSET Threads] ==
               IF S = {} THEN cds
               ELSE LET u == CHOOSE v \in S : TRUE
                    IN CleanupKey(CloseAll[S \ {u}], tls[u])
       IN cds' = CloseAll[held]
    /\ keyLive' = FALSE
    /\ conv' = "destroyed"
    /\ UNCHANGED <<cfg, ctorEx, tls, thr, pc, call, ret, hist>>

\* Thread t ends: the key's destructor cleanupKey runs on a non-null value of
\* a key that still exists, after the value is set to null.
ThreadExit(t) ==
    /\ Idle(t)
    /\ thr' = [thr EXCEPT ![t] = "exited"]
    /\ IF keyLive /\ tls[t] # NoPair
       THEN /\ cds' = CleanupKey(cds, tls[t])
            /\ tls' = [tls EXCEPT ![t] = NoPair]
       ELSE UNCHANGED <<cds, tls>>
    /\ UNCHANGED <<cfg, conv, ctorEx, keyLive, pc, call, ret, hist>>


\* ------------------------------------------------------------------ memory
Fill(n, b) == [i \in 1..n |-> b]

\* A byte of storage nothing has been written to.
Uninit == -1

\* The bytes of a charT sequence: each charT is w bytes, low byte first.
CharByte(c, k) == IF k = 0 THEN c % 256 ELSE (c \div 256) % 256

BytesOf(S, w) == [i \in 1..(Len(S) * w) |-> CharByte(S[((i - 1) \div w) + 1], (i - 1) % w)]

\* UTF8Buffer::getMoreBytes(howMany, firstUnused): room for howMany more bytes
\* after firstUnused, the bytes before firstUnused kept; the result is the
\* buffer and the cursor to the new room.
GetMoreBytes(mem, howMany, firstUnused) ==
    IF firstUnused = NullPtr
    THEN [mem |-> Fill(howMany, Uninit), cur |-> 0]
    ELSE [mem |-> SubSeq(mem, 1, firstUnused) \o Fill(howMany, Uninit), cur |-> firstUnused]

\* Storing `bytes` at offset off of mem (the room is there).
WriteAt(mem, off, bytes) ==
    [i \in 1..Len(mem) |->
        IF i > off /\ i <= off + Len(bytes) THEN bytes[i - off] ELSE mem[i]]

\* target.size() of a basic_string<charT> whose storage is mem.
Size(mem, w) == Len(mem) \div w

\* target.resize(n): truncated, or extended with charT().
Resize(mem, n, w) ==
    IF n * w <= Len(mem) THEN SubSeq(mem, 1, n * w)
    ELSE mem \o Fill(n * w - Len(mem), 0)

\* ------------------------------------------------------------- conversions
\* A capacity request with another floor.
CapacityWrongFloor(inbytesleft) == Max(inbytesleft, 2 * MinCapacity)

\* A capacity request without a floor.
CapacityNoFloor(inbytesleft) == inbytesleft

\* std::max(inbytesleft, size_t(4))
Capacity(inbytesleft) == Max(inbytesleft, MinCapacity)

\* The input the engine has not consumed yet: inbuf .. inbuf + inbytesleft.
InputLeft(c) == SubSeq(c.src, c.inpos + 1, c.inpos + c.inbytesleft)

\* while(count == size_t(-1) && errno == E2BIG)
Retry(c) == c.count = -1 /\ c.errno = "E2BIG"

\* A failure test that knows only EILSEQ.
FailedIlseqOnly(c) == c.count = -1 /\ c.errno = "EILSEQ"

\* if(count == size_t(-1)) throw
Failed(c) == c.count = -1

StrError(errno) ==
    CASE errno = "E2BIG" -> "Argument list too long"
      [] errno = "EILSEQ" -> "Invalid or incomplete multibyte or wide character"
      [] errno = "EINVAL" -> "Invalid argument"
      [] OTHER -> "Success"

\* A reason chosen with the test on errno inverted.
ErrorTextSwapped(errno) == IF errno = "0" THEN StrError(errno) ELSE "Unknown error"

\* errno != 0 ? strerror(errno) : "Unknown error"
ErrorText(errno) == IF errno # "0" THEN StrError(errno) ELSE "Unknown error"

\* A pass that asks the buffer for room from the start every time.
ToUTF8IterRestart(c, cd) ==
    LET howMany == Capacity(c.inbytesleft)
        g == GetMoreBytes(c.mem, howMany, NullPtr)
        r == Iconv(cd, InputLeft(c), howMany)
    IN [c EXCEPT !.mem = WriteAt(g.mem, g.cur, r.out),
                 !.outbuf = g.cur + Len(r.out),
                 !.outleft = r.outleft,
                 !.inpos = c.inpos + (c.inbytesleft - Len(r.in)),
                 !.inbytesleft = Len(r.in),
                 !.count = r.count,
                 !.errno = r.errno,
                 !.iters = c.iters + 1,
                 !.req = howMany,
                 !.win = g.cur,
                 !.grown = c.grown + howMany,
                 !.peak = Max(c.peak, Len(g.mem))]

\* One pass of toUTF8's do-loop body on the locals c, with descriptor cd.
ToUTF8Iter(c, cd) ==
    LET howMany == Capacity(c.inbytesleft)
        g == GetMoreBytes(c.mem, howMany, c.outbuf)
        r == Iconv(cd, InputLeft(c), howMany)
    IN [c EXCEPT !.mem = WriteAt(g.mem, g.cur, r.out),
                 !.outbuf = g.cur + Len(r.out),
                 !.outleft = r.outleft,
                 !.inpos = c.inpos + (c.inbytesleft - Len(r.in)),
                 !.inbytesleft = Len(r.in),
                 !.count = r.count,
                 !.errno = r.errno,
                 !.iters = c.iters + 1,
                 !.req = howMany,
                 !.win = g.cur,
                 !.grown = c.grown + howMany,
                 !.peak = Max(c.peak, Len(g.mem))]

\* A loop that does not keep the offset of the bytes already written.
BytesUsedLost(c) == 0

\* bytesused: the offset of outbuf in target's storage, 0 before the first pass.
BytesUsed(c) == IF c.outbuf # NullPtr THEN c.outbuf ELSE 0

\* A pass that counts the new room in charT instead of bytes.
FromUTF8IterNoScale(c, cd, w) ==
    LET bytesused == BytesUsed(c)
        increment == Capacity(c.inbytesleft)
        mem == Resize(c.mem, Size(c.mem, w) + increment, w)
        outbuf == bytesused
        outbytesleft == c.outleft + increment
        r == Iconv(cd, InputLeft(c), outbytesleft)
    IN [c EXCEPT !.mem = WriteAt(mem, outbuf, r.out),
                 !.outbuf = outbuf + Len(r.out),
                 !.outleft = r.outleft,
                 !.inpos = c.inpos + (c.inbytesleft - Len(r.in)),
                 !.inbytesleft = Len(r.in),
                 !.count = r.count,
                 !.errno = r.errno,
                 !.iters = c.iters + 1,
                 !.req = increment,
                 !.win = outbuf,
                 !.grown = c.grown + increment,
                 !.peak = Max(c.peak, Size(mem, w))]

\* One pass of fromUTF8's do-loop body on the locals c (c.mem is target's
\* storage), charT being w bytes.
FromUTF8Iter(c, cd, w) ==
    LET bytesused == BytesUsed(c)
        increment == Capacity(c.inbytesleft)
        mem == Resize(c.mem, Size(c.mem, w) + increment, w)
        outbuf == bytesused
        outbytesleft == c.outleft + increment * w
        r == Iconv(cd, InputLeft(c), outbytesleft)
    IN [c EXCEPT !.mem = WriteAt(mem, outbuf, r.out),
                 !.outbuf = outbuf + Len(r.out),
                 !.outleft = r.outleft,
                 !.inpos = c.inpos + (c.inbytesleft - Len(r.in)),
                 !.inbytesleft = Len(r.in),
                 !.count = r.count,
                 !.errno = r.errno,
                 !.iters = c.iters + 1,
                 !.req = increment,
                 !.win = outbuf,
                 !.grown = c.grown + increment,
                 !.peak = Max(c.peak, Size(mem, w))]

\* A return that leaves the unused room in the target.
FinalResizeNoTrim(c, w) == c.mem

\* target.resize(target.size() - (outbytesleft / sizeof(charT)))
FinalResize(c, w) == Resize(c.mem, Size(c.mem, w) - (c.outleft \div w), w)

\* An end of call that trims the target to the bytes written before it throws.
OutcomeTrimmed(c, w) ==
    IF Failed(c)
    THEN [ex |-> Exception("IllegalConversionException", <<ErrorText(c.errno)>>),
          val |-> IF c.op = "toUTF8" THEN SubSeq(c.mem, 1, c.outbuf)
                  ELSE FinalResize(c, w),
          cursor |-> NullPtr, call |-> c]
    ELSE IF c.op = "toUTF8"
    THEN [ex |-> NoEx, val |-> SubSeq(c.mem, 1, c.outbuf), cursor |-> c.outbuf, call |-> c]
    ELSE [ex |-> NoEx, val |-> FinalResize(c, w), cursor |-> NullPtr, call |-> c]

\* How the call with final locals c ends.
Outcome(c, w) ==
    IF Failed(c)
    THEN [ex |-> Exception("IllegalConversionException", <<ErrorText(c.errno)>>),
          val |-> IF c.op = "toUTF8" THEN SubSeq(c.mem, 1, c.outbuf) ELSE c.mem,
          cursor |-> NullPtr, call |-> c]
    ELSE IF c.op = "toUTF8"
    THEN [ex |-> NoEx, val |-> SubSeq(c.mem, 1, c.outbuf), cursor |-> c.outbuf, call |-> c]
    ELSE [ex |-> NoEx, val |-> FinalResize(c, w), cursor |-> NullPtr, call |-> c]

\* The entry of toUTF8 (op = "toUTF8", the descriptor is the pair's second)
\* or fromUTF8 (the pair's first) on thread t, up to the descriptor's reset:
\* getDescriptors, and the locals' initial values.
Enter(t, op, src, entry, rtOf) ==
    /\ conv = "alive"
    /\ thr[t] = "running"
    /\ pc[t] = "idle"
    /\ \E fail \in (IF tls[t] # NoPair THEN {"none"}
                    ELSE {"none", "first", "second", "register"}) :
         LET g == GetDescriptors(t, fail # "first", fail # "second", fail # "register")
             c == [NoCall EXCEPT !.op = op, !.src = src, !.entry = entry, !.rtOf = rtOf,
                                 !.inbytesleft = Len(src), !.mem = entry,
                                 !.peak = Size(entry, cfg.w)]
         IN /\ g.how = "hit" \/ CanOpen
            /\ cds' = g.cds
            /\ tls' = g.tls
            /\ hist' = [hist EXCEPT ![t] = Record(@, g)]
            /\ IF g.ex # NoEx
               THEN /\ ret' = [ret EXCEPT ![t] = [NoRet EXCEPT !.ex = g.ex, !.val = entry,
                                                                !.call = c]]
                    /\ UNCHANGED <<pc, call>>
               ELSE /\ pc' = [pc EXCEPT ![t] = "reset"]
                    /\ call' = [call EXCEPT ![t] =
                                   [c EXCEPT !.cd = IF op = "toUTF8" THEN g.pair.second
                                                    ELSE g.pair.first]]
                    /\ ret' = [ret EXCEPT ![t] = NoRet]
    /\ UNCHANGED <<cfg, conv, ctorEx, keyLive, thr>>

\* toUTF8(sourceStart, sourceEnd, buf) is called with the charT string S.
ToUTF8Enter(t, Strs) ==
    /\ Idle(t)
    /\ \E S \in Strs : Enter(t, "toUTF8", BytesOf(S, cfg.w), <<>>, <<>>)

\* fromUTF8(sourceStart, sourceEnd, target) is called with bytes B and a
\* target holding the charT string E.
FromUTF8Enter(t, Bs, Es) ==
    /\ Idle(t)
    /\ \E B \in Bs, E \in Es : Enter(t, "fromUTF8", B, BytesOf(E, cfg.w), <<>>)

\* fromUTF8 is called with the bytes the thread's last toUTF8 produced and an
\* empty target.
RoundTripEnter(t) ==
    /\ ret[t].call.op = "toUTF8"
    /\ ret[t].ex = NoEx
    /\ Enter(t, "fromUTF8", ret[t].val, <<>>, <<ret[t].call.src>>)

\* The caller lets go of the result of its last call.
Consume(t) ==
    /\ thr[t] = "running"
    /\ pc[t] = "idle"
    /\ ret[t] # NoRet
    /\ ret' = [ret EXCEPT ![t] = NoRet]
    /\ UNCHANGED <<cfg, conv, ctorEx, keyLive, tls, cds, thr, pc, call, hist>>

\* An entry that goes to the loop without the reset.
ResetSkipped(t) ==
    /\ pc[t] = "reset"
    /\ pc' = [pc EXCEPT ![t] = "loop"]
    /\ UNCHANGED <<cfg, conv, ctorEx, keyLive, tls, cds, thr, call, ret, hist>>

\* iconv(cd, 0, 0, 0, 0): the descriptor returns to its initial shift state.
Reset(t) ==
    /\ pc[t] = "reset"
    /\ cds' = [cds EXCEPT ![call[t].cd].shift = "initial"]
    /\ pc' = [pc EXCEPT ![t] = "loop"]
    /\ UNCHANGED <<cfg, conv, ctorEx, keyLive, tls, thr, call, ret, hist>>

\* One pass of the do-loop of the call in progress on thread t.
LoopIter(t) ==
    /\ pc[t] = "loop"
    /\ LET cd == cds[call[t].cd]
           c == IF call[t].op = "toUTF8" THEN ToUTF8Iter(call[t], cd)
                ELSE FromUTF8Iter(call[t], cd, cfg.w)
       IN /\ call' = [call EXCEPT ![t] = c]
          /\ pc' = [pc EXCEPT ![t] = IF Retry(c) THEN "loop" ELSE "done"]
          /\ cds' = [cds EXCEPT ![call[t].cd].shift = "used",
                                ![call[t].cd].failed = @ \/ (Failed(c) /\ ~Retry(c))]
    /\ UNCHANGED <<cfg, conv, ctorEx, keyLive, tls, thr, ret, hist>>

\* After the loop: the throw, or the return (with fromUTF8's final resize).
Finish(t) ==
    /\ pc[t] = "done"
    /\ ret' = [ret EXCEPT ![t] = Outcome(call[t], cfg.w)]
    /\ call' = [call EXCEPT ![t] = NoCall]
    /\ pc' = [pc EXCEPT ![t] = "idle"]
    /\ UNCHANGED <<cfg, conv, ctorEx, keyLive, tls, cds, thr, hist>>

\* ----------------------------------------------------------------- inputs
SeqsUpTo(A, n) == UNION {[1..k -> A] : k \in 0..n}

\* The charT values source strings are made of: 'A', e-acute, the euro sign,
\* a lone low surrogate (invalid); for a char string holding UTF-16LE, the
\* bytes 0 and 'A'.
CharAlphabet(c) ==
    IF c.code = "UTF-16LE"
    THEN IF c.w = 2 THEN {65, 233, 8364, 56320} ELSE {0, 65}
    ELSE {65, 233}

\* charT units per character of the internal code.
UnitsPerChar(c) == IF c.code = "UTF-16LE" /\ c.w = 1 THEN 2 ELSE 1

SourceStrings(c, n) == SeqsUpTo(CharAlphabet(c), n * UnitsPerChar(c))

\* 'A', the lead bytes of U+00C0..U+00FF and U+0140..U+017F, a continuation
\* byte: <<195, 169>> is e-acute, <<197, 169>> is U+0169.
ByteAlphabet == {65, 195, 197, 169}

ByteStrings(n) == SeqsUpTo(ByteAlphabet, n)

\* What a target may hold on entry: 'B's.
EntryStrings(n) == SeqsUpTo({66}, n)


\* ---------------------------------------------------------- specifications
\* The instantiations explored while two threads run.
LifeConfigs == {c \in Configs : c.code # "UTF-16LE"}

\* What the two threads convert: the empty string and one whose UTF-8 form
\* takes a second pass of the loop; 'A' and a lead byte with nothing after it.
LifeStrings == {<<>>, <<233, 233, 233>>}

LifeBytes == {<<65>>, <<195>>}

Init ==
    /\ cfg \in LifeConfigs
    /\ conv = "none"
    /\ ctorEx = NoEx
    /\ keyLive = FALSE
    /\ tls = [t \in Threads |-> NoPair]
    /\ cds = <<>>
    /\ thr = [t \in Threads |-> "running"]
    /\ pc = [t \in Threads |-> "idle"]
    /\ call = [t \in Threads |-> NoCall]
    /\ ret = [t \in Threads |-> NoRet]
    /\ hist = [t \in Threads |-> NoHist]

\* Two threads share the converter and convert short inputs.
Next ==
    \E t \in Threads :
        \/ Construct(t)
        \/ Destroy(t)
        \/ ThreadExit(t)
        \/ ToUTF8Enter(t, LifeStrings)
        \/ FromUTF8Enter(t, LifeBytes, {<<>>})
        \/ RoundTripEnter(t)
        \/ Consume(t)
        \/ Reset(t)
        \/ LoopIter(t)
        \/ Finish(t)

Spec == Init /\ [][Next]_vars

\* One thread owns the converter and converts every input up to the bounds.
ConvInit ==
    /\ cfg \in Configs
    /\ conv = "none"
    /\ ctorEx = NoEx
    /\ keyLive = FALSE
    /\ tls = [t \in Threads |-> NoPair]
    /\ cds = <<>>
    /\ thr = [t \in Threads |-> IF t = "t1" THEN "running" ELSE "exited"]
    /\ pc = [t \in Threads |-> "idle"]
    /\ call = [t \in Threads |-> NoCall]
    /\ ret = [t \in Threads |-> NoRet]
    /\ hist = [t \in Threads |-> NoHist]

ConvNext ==
    \E t \in Threads :
        \/ Construct(t)
        \/ Destroy(t)
        \/ ThreadExit(t)
        \/ ToUTF8Enter(t, SourceStrings(cfg, MaxLen))
        \/ FromUTF8Enter(t, ByteStrings(MaxBytes), EntryStrings(MaxEntry))
        \/ RoundTripEnter(t)
        \/ Consume(t)
        \/ Reset(t)
        \/ LoopIter(t)
        \/ Finish(t)

ConvSpec == ConvInit /\ [][ConvNext]_vars

\* A thread inside toUTF8 or fromUTF8 keeps running: the call is synchronous
\* and waits for nothing.  The last conjunct is WF_vars(LoopIter(t)) written
\* out, with pc[t] = "loop" for ENABLED <<LoopIter(t)>>_vars (a pass always
\* counts itself in call[t].iters).
FairConvSpec ==
    ConvSpec /\ \A t \in Threads :
        /\ WF_vars(Reset(t))
        /\ WF_vars(Finish(t))
        /\ ([]<>(pc[t] # "loop") \/ []<><<LoopIter(t)>>_vars)

\* ------------------------------------------------------------------ claims
Written(h) == h \in 1..Len(cds)

IsClosed(h) == Written(h) /\ cds[h].st = "closed"

IsOpen(h) == Written(h) /\ cds[h].st = "open"

\* What the engine makes of the UTF-8 bytes B given all the room it needs.
Decoded(B) == IconvRun(ExternalCode, cfg.code, B, 4 * Len(B), <<>>).out

\* C1: a string that toUTF8 converts, handed as produced to fromUTF8 with an
\* empty target, comes back as it was: the call succeeds and the target
\* holds exactly the original string.
C1_RoundTrip ==
    \A t \in Threads :
        ret[t].call.rtOf # <<>> =>
            /\ ret[t].ex = NoEx
            /\ ret[t].val = ret[t].call.rtOf[1]

\* A round trip of a non-empty string whose fromUTF8 needed a second pass.
C1_Witness ==
    \E t \in Threads :
        /\ ret[t].call.rtOf # <<>>
        /\ ret[t].call.rtOf[1] # <<>>
        /\ ret[t].ex = NoEx
        /\ ret[t].call.iters >= 2

\* A call on t that has found its pair registered leaves the descriptors
\* and the thread-specific values alone and works on a descriptor of the pair.
C2_ReuseStep ==
    \A t \in Threads :
        (pc[t] = "idle" /\ pc'[t] = "reset" /\ hist[t].okPair # NoPair) =>
            /\ cds' = cds
            /\ tls' = tls
            /\ tls[t] = hist[t].okPair
            /\ call'[t].cd = IF call'[t].op = "toUTF8" THEN hist[t].okPair.second
                             ELSE hist[t].okPair.first

C2_OnePair ==
    \A t \in Threads :
        /\ hist[t].regs <= 1
        /\ hist[t].okPair # NoPair =>
               /\ hist[t].lastHow \in {"created", "hit"}
               /\ hist[t].lastPair = hist[t].okPair

\* C2 (amended): a thread registers at most one pair; once a call on the
\* thread has opened and registered its pair, every later call on that
\* thread gets the same two descriptors and opens and closes nothing.
C2_SessionReuse == [](C2_OnePair) /\ [][C2_ReuseStep]_vars

\* A second or later call on a thread that found the pair registered.
C2_Witness ==
    \E t \in Threads :
        /\ hist[t].calls = 2
        /\ hist[t].lastHow = "hit"
        /\ pc[t] = "reset"

\* C2 as stated: at most one pair is opened per thread, and every call after
\* the thread's first gets the first call's descriptors without an open.
C2_Original ==
    \A t \in Threads :
        /\ hist[t].pairs <= 1
        /\ hist[t].calls = 2 =>
               /\ hist[t].lastHow = "hit"
               /\ hist[t].lastPair = hist[t].okPair

\* C3: while the key exists, the value a thread has under it is null or a
\* pair of two distinct open descriptors, one for each direction.
C3_PairAtomicity ==
    \A t \in Threads :
        keyLive =>
            \/ tls[t] = NoPair
            \/ /\ IsOpen(tls[t].first)
               /\ IsOpen(tls[t].second)
               /\ tls[t].first # tls[t].second
               /\ cds[tls[t].first].to = cfg.code
               /\ cds[tls[t].second].from = cfg.code

\* A thread holds a pair after an earlier call of its own had opened the
\* first direction and failed to open the second.
C3_Witness ==
    \E t \in Threads :
        /\ keyLive
        /\ tls[t] # NoPair
        /\ \E h \in 1..Len(cds) : cds[h].by = t /\ cds[h].st = "closed"

CtorCds == {h \in 1..Len(cds) : cds[h].by = "ctor"}

\* C4: once the constructor has run, no descriptor it opened is open; with
\* a code the engine does not know the converter never comes alive; a live
\* converter had both directions opened; and a constructor that could not
\* open a direction threw IconvInitializationException with the reason
\* createDescriptors gave for that direction.
C4_Construction ==
    /\ \A h \in CtorCds : conv # "none" /\ cds[h].st = "closed" /\ cds[h].closes = 1
    /\ cfg.code \notin KnownCodes => conv \in {"none", "failed"}
    /\ conv = "alive" => Cardinality(CtorCds) = 2 /\ ctorEx = NoEx
    /\ (conv = "failed" /\ Cardinality(CtorCds) = 0) =>
           ctorEx = Exception("IconvInitializationException",
                              <<"iconv cannot convert from", ExternalCode, "to", cfg.code>>)
    /\ (conv = "failed" /\ Cardinality(CtorCds) = 1) =>
           ctorEx = Exception("IconvInitializationException",
                              <<"iconv cannot convert from", cfg.code, "to", ExternalCode>>)

\* The constructor opened the first direction, failed on the second and threw.
C4_Witness ==
    /\ conv = "failed"
    /\ Cardinality(CtorCds) = 1
    /\ \A h \in CtorCds : cds[h].st = "closed"

\* C5 as stated: a thread that has ended and had registered a pair has both
\* descriptors of the pair closed.
C5_ExitCloses ==
    \A t \in Threads :
        (thr[t] = "exited" /\ hist[t].okPair # NoPair) =>
            /\ IsClosed(hist[t].okPair.first)
            /\ IsClosed(hist[t].okPair.second)

\* What a step of the destructor run by t does to the descriptors and to the
\* threads' values under the key.
C6_DestroyStep ==
    \A t \in Threads :
        Destroy(t) =>
            /\ Len(cds') = Len(cds)
            /\ \A h \in 1..Len(cds) :
                   IF tls[t] # NoPair /\ h \in {tls[t].first, tls[t].second}
                   THEN cds[h].st = "open" /\ cds'[h].st = "closed"
                   ELSE cds'[h] = cds[h]
            /\ tls' = tls

\* C6: the destructor run by t closes the two descriptors of t's pair, if t
\* has one, changes no other descriptor, opens none, and leaves every
\* thread's value under the key as it was.
C6_DestroyFrame == [][C6_DestroyStep]_vars

\* The converter is destroyed, the pair of one thread is closed and the pair
\* of another, still running, is open.
C6_Witness ==
    /\ conv = "destroyed"
    /\ \E t, u \in Threads :
        /\ t # u
        /\ hist[t].okPair # NoPair
        /\ IsClosed(hist[t].okPair.first)
        /\ IsClosed(hist[t].okPair.second)
        /\ thr[u] = "running"
        /\ tls[u] # NoPair
        /\ IsOpen(tls[u].first)
        /\ IsOpen(tls[u].second)

\* C7: a call whose loop has ended returns only with no input left, and with
\* input left it throws IllegalConversionException.
C7_CompleteConsumption ==
    \A t \in Threads :
        ret[t].call.iters >= 1 =>
            /\ ret[t].ex = NoEx =>
                   /\ ret[t].call.inbytesleft = 0
                   /\ ret[t].call.inpos = Len(ret[t].call.src)
            /\ ret[t].call.inbytesleft > 0 =>
                   ret[t].ex.type = "IllegalConversionException"

\* The engine stopped on an incomplete sequence with input left and the call threw.
C7_Witness ==
    \E t \in Threads :
        /\ ret[t].call.iters >= 1
        /\ ret[t].call.inbytesleft > 0
        /\ ret[t].call.errno = "EINVAL"
        /\ ret[t].ex.type = "IllegalConversionException"

\* C8 as stated: after a successful fromUTF8 the target is what it held on
\* entry followed by the decoding of the input.
C8_FromUTF8Appends ==
    \A t \in Threads :
        (ret[t].call.op = "fromUTF8" /\ ret[t].call.iters >= 1 /\ ret[t].ex = NoEx) =>
            ret[t].val = ret[t].call.entry \o Decoded(ret[t].call.src)

\* C9 as stated: after a successful fromUTF8 the target's length is the grown
\* length less the unused room, in charT units, and no charT of it past the
\* entry content lies beyond what the call wrote.
C9_FinalLength ==
    \A t \in Threads :
        (ret[t].call.op = "fromUTF8" /\ ret[t].call.iters >= 1 /\ ret[t].ex = NoEx) =>
            /\ Size(ret[t].val, cfg.w) =
                   Size(ret[t].call.mem, cfg.w) - (ret[t].call.outleft \div cfg.w)
            /\ Len(ret[t].val) <= Max(Len(ret[t].call.entry), ret[t].call.outbuf)

\* C10: toUTF8 of the empty string passes through the loop once, asks for 4
\* bytes, writes nothing and returns the cursor that request returned.
C10_EmptyToUTF8 ==
    \A t \in Threads :
        /\ (call[t].op = "toUTF8" /\ call[t].src = <<>>) =>
               /\ call[t].iters <= 1
               /\ pc[t] = "loop" => call[t].iters = 0
        /\ (ret[t].call.op = "toUTF8" /\ ret[t].call.src = <<>> /\ ret[t].call.cd # 0) =>
               /\ ret[t].ex = NoEx
               /\ ret[t].call.iters = 1
               /\ ret[t].call.req = MinCapacity
               /\ ret[t].val = <<>>
               /\ ret[t].cursor = ret[t].call.win

\* toUTF8 of the empty string has returned.
C10_Witness ==
    \E t \in Threads :
        /\ ret[t].call.op = "toUTF8"
        /\ ret[t].call.src = <<>>
        /\ ret[t].call.iters = 1
        /\ ret[t].ex = NoEx

\* C11 as stated: while fromUTF8 runs on an empty byte range the target is
\* never longer than it was on entry, and it returns with the entry length.
C11_NoGrowth ==
    \A t \in Threads :
        /\ (call[t].op = "fromUTF8" /\ call[t].src = <<>>) =>
               Size(call[t].mem, cfg.w) <= Size(call[t].entry, cfg.w)
        /\ (ret[t].call.op = "fromUTF8" /\ ret[t].call.src = <<>>) =>
               /\ ret[t].call.peak <= Size(ret[t].call.entry, cfg.w)
               /\ Size(ret[t].val, cfg.w) = Size(ret[t].call.entry, cfg.w)

\* C11 (amended): fromUTF8 of an empty byte range passes through the loop
\* once, grows the target by 4 charT, writes nothing, and trims the 4 charT
\* again before it returns: the target comes back as it was on entry, having
\* been 4 charT longer during the call.
C11_EmptyFromUTF8 ==
    \A t \in Threads :
        /\ (call[t].op = "fromUTF8" /\ call[t].src = <<>>) =>
               /\ call[t].iters <= 1
               /\ Size(call[t].mem, cfg.w) =
                      Size(call[t].entry, cfg.w) + call[t].iters * MinCapacity
               /\ SubSeq(call[t].mem, 1, Len(call[t].entry)) = call[t].entry
        /\ (ret[t].call.op = "fromUTF8" /\ ret[t].call.src = <<>> /\ ret[t].call.cd # 0) =>
               /\ ret[t].ex = NoEx
               /\ ret[t].call.iters = 1
               /\ ret[t].call.peak = Size(ret[t].call.entry, cfg.w) + MinCapacity
               /\ ret[t].val = ret[t].call.entry

\* fromUTF8 of an empty byte range into a non-empty target has returned.
C11_Witness ==
    \E t \in Threads :
        /\ ret[t].call.op = "fromUTF8"
        /\ ret[t].call.src = <<>>
        /\ ret[t].call.entry # <<>>
        /\ ret[t].call.iters = 1
        /\ ret[t].ex = NoEx

\* C12: the loop makes another pass exactly when the engine reported a
\* shortfall (E2BIG), so no call ends on E2BIG; a call whose last pass failed
\* in any other way throws IllegalConversionException with the engine's text
\* for that error, a call that returns had the engine succeed, and bytes
\* that end inside a multi-byte sequence always make fromUTF8 throw.
C12_ErrorPropagation ==
    \A t \in Threads :
        /\ (pc[t] = "loop" /\ call[t].iters >= 1) =>
               call[t].count = -1 /\ call[t].errno = "E2BIG"
        /\ pc[t] = "done" => ~(call[t].count = -1 /\ call[t].errno = "E2BIG")
        /\ ret[t].call.iters >= 1 =>
               /\ ret[t].call.count = -1 =>
                      /\ ret[t].call.errno \in {"EILSEQ", "EINVAL"}
                      /\ ret[t].ex = Exception("IllegalConversionException",
                                               <<StrError(ret[t].call.errno)>>)
               /\ ret[t].ex = NoEx => ret[t].call.count = 0
               /\ (/\ ret[t].call.op = "fromUTF8"
                   /\ ret[t].call.src # <<>>
                   /\ ret[t].call.src[Len(ret[t].call.src)] \in {195, 197}) =>
                      ret[t].ex.type = "IllegalConversionException"

\* A call whose first pass ended on a shortfall and whose second pass failed
\* on an incomplete character has thrown.
C12_Witness ==
    \E t \in Threads :
        /\ ret[t].call.iters >= 2
        /\ ret[t].call.count = -1
        /\ ret[t].call.errno = "EINVAL"
        /\ ret[t].ex.type = "IllegalConversionException"

\* The descriptors of the pair registered for thread t.
Registered(t) == IF tls[t] = NoPair THEN {} ELSE {tls[t].first, tls[t].second}

\* The loop of a call run to its end in one piece, from the locals c.
RECURSIVE RunLoop(_, _, _)
RunLoop(c, cd, w) ==
    LET n == IF c.op = "toUTF8" THEN ToUTF8Iter(c, cd) ELSE FromUTF8Iter(c, cd, w)
    IN IF Retry(n) THEN RunLoop(n, cd, w) ELSE n

\* How the call that ended as r ends when nothing else runs during it.
Alone(r) ==
    LET c == [NoCall EXCEPT !.op = r.call.op, !.src = r.call.src,
                            !.entry = r.call.entry, !.rtOf = r.call.rtOf,
                            !.cd = r.call.cd, !.inbytesleft = Len(r.call.src),
                            !.mem = r.call.entry, !.peak = Size(r.call.entry, cfg.w)]
    IN Outcome(RunLoop(c, cds[r.call.cd], cfg.w), cfg.w)

\* No descriptor is in the pairs of two threads, a call in progress works on
\* a descriptor of its own thread's pair, and a call that ran its loop ended
\* as it ends alone.
C13_Isolated ==
    /\ \A t, u \in Threads : t # u => Registered(t) \cap Registered(u) = {}
    /\ \A t \in Threads :
        /\ pc[t] # "idle" => call[t].cd \in Registered(t)
        /\ ret[t].call.cd # 0 => ret[t] = Alone(ret[t])

\* A reset or a pass of the loop on t touches the descriptor of t's call and
\* no other; the destructor run by t, or t's end, touches t's pair only.
C13_UseStep ==
    \A t \in Threads :
        /\ (Reset(t) \/ LoopIter(t)) =>
               /\ call[t].cd \in Registered(t)
               /\ \A h \in 1..Len(cds) : h # call[t].cd => cds'[h] = cds[h]
        /\ (Destroy(t) \/ ThreadExit(t)) =>
               \A h \in 1..Len(cds) : cds'[h] # cds[h] => h \in Registered(t)
        /\ \A u \in Threads \ {t} :
               (Reset(t) \/ LoopIter(t) \/ Finish(t) \/ ThreadExit(t) \/ Destroy(t)) =>
                   /\ call'[u] = call[u]
                   /\ ret'[u] = ret[u]
                   /\ tls'[u] = tls[u]

\* C13: a descriptor is reset, converted with and closed only by the thread
\* in whose pair it is registered, no two threads have a descriptor in
\* common, and every call ends as it would have ended run alone.
C13_ThreadIsolation == [](C13_Isolated) /\ [][C13_UseStep]_vars

\* A call of one thread that needed two passes has returned while a call of
\* the other thread is between two passes of its own loop.
C13_Witness ==
    \E t, u \in Threads :
        /\ t # u
        /\ ret[t].call.iters >= 2
        /\ ret[t].ex = NoEx
        /\ pc[u] = "loop"
        /\ call[u].iters >= 1

\* Before the first pass of a call the descriptor is in its initial shift
\* state, whatever earlier calls left, and the call ends as it ends on a
\* descriptor nothing has used.
C14_FreshAtFirstPass ==
    \A t \in Threads :
        /\ (pc[t] = "loop" /\ call[t].iters = 0) =>
               cds[call[t].cd].shift = "initial"
        /\ ret[t].call.cd # 0 =>
               Outcome(RunLoop([ret[t].call EXCEPT
                                   !.inpos = 0, !.inbytesleft = Len(ret[t].call.src),
                                   !.outbuf = NullPtr, !.outleft = 0, !.count = 0,
                                   !.errno = "0", !.mem = ret[t].call.entry, !.iters = 0,
                                   !.req = 0, !.win = NullPtr, !.grown = 0,
                                   !.peak = Size(ret[t].call.entry, cfg.w)],
                               NewCd(cds[ret[t].call.cd].from, cds[ret[t].call.cd].to, t),
                               cfg.w), cfg.w) = ret[t]

\* Between getDescriptors and the first pass of a call there is a reset of
\* the call's descriptor, and the first pass starts from the initial state.
C14_ResetStep ==
    \A t \in Threads :
        /\ (pc[t] = "reset" /\ pc'[t] # "reset") =>
               /\ pc'[t] = "loop"
               /\ call'[t] = call[t]
               /\ cds'[call[t].cd].shift = "initial"
        /\ (LoopIter(t) /\ call[t].iters = 0) => cds[call[t].cd].shift = "initial"
        /\ (pc[t] = "idle" /\ pc'[t] # "idle") => pc'[t] = "reset"

\* C14: in every call the descriptor is reset after getDescriptors and
\* before the first conversion, so a call's result is the one it has on a
\* fresh descriptor, also after a call on the same thread that failed.
C14_ShiftReset == [](C14_FreshAtFirstPass) /\ [][C14_ResetStep]_vars

\* A call has returned without a failure on a descriptor on which an earlier
\* call had failed.
C14_Witness ==
    \E t \in Threads :
        /\ ret[t].call.iters >= 1
        /\ ret[t].ex = NoEx
        /\ ret[t].call.src # <<>>
        /\ cds[ret[t].call.cd].failed

\* The input of call c is well-formed: given all the room it needs, the
\* engine converts the whole of it.
WellFormed(c) ==
    LET room == 4 * Len(c.src) + MinCapacity
    IN IF c.op = "toUTF8"
       THEN IconvRun(cfg.code, ExternalCode, c.src, room, <<>>).count = 0
       ELSE IconvRun(ExternalCode, cfg.code, c.src, room, <<>>).count = 0

\* A call makes no more passes than its input has bytes, plus one, and a
\* call on well-formed input that has ended has returned.
C15_Bounded ==
    \A t \in Threads :
        /\ call[t].iters <= Len(call[t].src) + 1
        /\ (ret[t].call.iters >= 1 /\ WellFormed(ret[t].call)) => ret[t].ex = NoEx
        /\ (ret[t].call.op # "none" /\ ret[t].call.iters = 0) =>
               /\ hist[t].lastHow \in {"openfail", "regfail"}
               /\ ret[t].ex.type \in {"IllegalConversionException", "ThreadSyscallException"}

\* Every pass offers the engine room for at least 4 units, and a pass that
\* ends on a shortfall has consumed input.
C15_PassStep ==
    \A t \in Threads :
        LoopIter(t) =>
            /\ call'[t].req >= MinCapacity
            /\ (call'[t].outbuf - call'[t].win) + call'[t].outleft >= MinCapacity
            /\ Retry(call'[t]) =>
                   /\ call'[t].inbytesleft < call[t].inbytesleft
                   /\ call'[t].outbuf > BytesUsed(call[t])

\* C15 as stated: every call on well-formed input that has ended has
\* returned.
C15_AlwaysReturns ==
    \A t \in Threads :
        (ret[t].call.op # "none" /\ WellFormed(ret[t].call)) => ret[t].ex = NoEx

\* C15 (amended): every call that has got its descriptors comes to an end, a
\* call on well-formed input by returning; a call whose getDescriptors
\* throws ends with that exception; the loop cannot go on for ever, because
\* every pass has room for at least 4 units and a pass that ends on a
\* shortfall has converted at least one more character.
C15_Totality ==
    /\ [](C15_Bounded)
    /\ [][C15_PassStep]_vars
    /\ \A t \in Threads : (pc[t] # "idle") ~> (pc[t] = "idle" /\ ret[t] # NoRet)

\* A call on well-formed input has returned after a pass that ended on a
\* shortfall and a second pass.
C15_Witness ==
    \E t \in Threads :
        /\ ret[t].call.iters >= 2
        /\ WellFormed(ret[t].call)
        /\ ret[t].ex = NoEx

\* What the engine makes of the first n bytes of the source of the toUTF8
\* call c, given all the room it needs.
Encoded(c, n) ==
    IconvRun(cfg.code, ExternalCode, SubSeq(c.src, 1, n), 4 * n + MinCapacity, <<>>).out

\* In toUTF8 the input cursor and the count of bytes left always add up to
\* the source, the write cursor is null exactly before the first pass, and
\* the bytes up to the write cursor are the conversion of the input up to
\* the input cursor.
C16_Carried ==
    \A t \in Threads :
        \A c \in {call[t], ret[t].call} :
            c.op = "toUTF8" =>
                /\ c.inpos + c.inbytesleft = Len(c.src)
                /\ c.iters = 0 <=> c.outbuf = NullPtr
                /\ c.iters >= 1 => SubSeq(c.mem, 1, c.outbuf) = Encoded(c, c.inpos)

\* A pass of toUTF8 asks for max(bytes of input left, 4) bytes, from the
\* start on the first pass and from the write cursor the engine left on
\* the later ones, keeps what lies before that cursor, and takes up the
\* input where the pass before left it.
C16_PassStep ==
    \A t \in Threads :
        (LoopIter(t) /\ call[t].op = "toUTF8") =>
            /\ call'[t].req = Max(call[t].inbytesleft, 4)
            /\ call'[t].win = IF call[t].iters = 0 THEN 0 ELSE call[t].outbuf
            /\ Len(call'[t].mem) = call'[t].win + call'[t].req
            /\ SubSeq(call'[t].mem, 1, call'[t].win) = SubSeq(call[t].mem, 1, call'[t].win)
            /\ call'[t].inpos >= call[t].inpos
            /\ call'[t].outbuf - call'[t].win =
                   Len(Encoded(call'[t], call'[t].inpos)) - Len(Encoded(call[t], call[t].inpos))

\* C16: every pass of toUTF8 asks for max(bytes of input left, 4) bytes of
\* room at the current write cursor (null first, then the cursor the engine
\* left), and the input cursor and count a pass leaves are the ones the
\* next pass starts from: no byte is converted twice and none is skipped.
C16_CapacityProtocol == [](C16_Carried) /\ [][C16_PassStep]_vars

\* toUTF8 has returned after two passes, the second with room asked for at
\* the cursor the first had left.
C16_Witness ==
    \E t \in Threads :
        /\ ret[t].call.op = "toUTF8"
        /\ ret[t].call.iters = 2
        /\ ret[t].call.win > 0
        /\ ret[t].ex = NoEx

\* In fromUTF8 the write cursor's offset and the bytes of room left add up
\* to the bytes the call has added to the target, which lie within the
\* target's storage.
C17_Accounted ==
    \A t \in Threads :
        \A c \in {call[t], ret[t].call} :
            (c.op = "fromUTF8" /\ c.iters >= 1) =>
                /\ c.outbuf + c.outleft = c.grown * cfg.w
                /\ Len(c.mem) = Len(c.entry) + c.grown * cfg.w
                /\ c.outbuf + c.outleft <= Len(c.mem)

\* What a pass of fromUTF8 hands the engine: the cursor at the offset of the
\* bytes written so far and a budget of the room left plus the new room, the
\* two adding up to all the bytes the call has added; the window ends within
\* the storage and the bytes before the cursor are as the passes before
\* left them.
C17_PassStep ==
    \A t \in Threads :
        (LoopIter(t) /\ call[t].op = "fromUTF8") =>
            LET budget == call[t].outleft + call'[t].req * cfg.w
            IN /\ call'[t].win = IF call[t].iters = 0 THEN 0 ELSE call[t].outbuf
               /\ call'[t].grown = call[t].grown + call'[t].req
               /\ call'[t].win + budget = call'[t].grown * cfg.w
               /\ call'[t].win + budget <= Len(call'[t].mem)
               /\ call'[t].outbuf - call'[t].win = budget - call'[t].outleft
               /\ SubSeq(call'[t].mem, 1, call'[t].win) = SubSeq(call[t].mem, 1, call'[t].win)

\* C17: whenever fromUTF8 calls the engine, the offset of the write cursor
\* in the target's storage plus the byte budget is the number of bytes the
\* call has added to the target (its increments times the width of charT),
\* so the window ends within the storage, and what earlier passes wrote is
\* still at the same offsets after the target has grown.
C17_ByteAccounting == [](C17_Accounted) /\ [][C17_PassStep]_vars

\* fromUTF8 into a non-empty target has made a second pass, writing behind
\* the bytes of the first.
C17_Witness ==
    \E t \in Threads :
        /\ pc[t] = "done"
        /\ call[t].op = "fromUTF8"
        /\ call[t].entry # <<>>
        /\ call[t].iters = 2
        /\ call[t].win > 0
        /\ call[t].outbuf > call[t].win

\* C18 as stated: while the converter is alive every open descriptor is in
\* the pair of exactly one thread, and after a getDescriptors in which the
\* registration failed the pair it opened is not open.
C18_NoOrphans ==
    /\ conv = "alive" =>
           \A h \in 1..Len(cds) :
               cds[h].st = "open" =>
                   Cardinality({t \in Threads : h \in Registered(t)}) = 1
    /\ \A t \in Threads :
           hist[t].lastHow = "regfail" =>
               /\ IsClosed(hist[t].lastPair.first)
               /\ IsClosed(hist[t].lastPair.second)

\* No descriptor has been closed twice, and a call in progress works on an
\* open descriptor of a live converter.
C19_OpenInUse ==
    /\ \A h \in 1..Len(cds) :
           /\ cds[h].closes <= 1
           /\ cds[h].st = "closed" <=> cds[h].closes = 1
    /\ \A t \in Threads :
           pc[t] # "idle" => conv = "alive" /\ IsOpen(call[t].cd)

\* A step closes only descriptors that are open, a reset or a pass works on
\* an open descriptor, and the end of a thread after the destructor has run
\* closes nothing.
C19_CloseStep ==
    /\ \A h \in 1..Len(cds) : cds'[h].closes # cds[h].closes => cds[h].st = "open"
    /\ \A t \in Threads :
           /\ (Reset(t) \/ LoopIter(t)) => IsOpen(call[t].cd)
           /\ (ThreadExit(t) /\ conv = "destroyed") => cds' = cds

\* C19: every descriptor is closed at most once (after the destructor has
\* closed the pair of the thread it ran on, the end of that thread closes
\* nothing), and no call on a live converter resets or converts with a
\* closed descriptor.
C19_CloseOnce == [](C19_OpenInUse) /\ [][C19_CloseStep]_vars

\* The thread that ran the destructor, which closed its pair, has ended.
C19_Witness ==
    \E t \in Threads :
        /\ conv = "destroyed"
        /\ thr[t] = "exited"
        /\ tls[t] # NoPair
        /\ IsClosed(tls[t].first)
        /\ IsClosed(tls[t].second)
        /\ cds[tls[t].first].closes = 1
        /\ cds[tls[t].second].closes = 1

\* C20 as stated: a fromUTF8 that has thrown IllegalConversionException
\* leaves the target longer than on entry by the sum of the increments of
\* the call, which is at least 4 charT.
C20_Untrimmed ==
    \A t \in Threads :
        (ret[t].call.op = "fromUTF8" /\ ret[t].ex.type = "IllegalConversionException") =>
            /\ Size(ret[t].val, cfg.w) = Size(ret[t].call.entry, cfg.w) + ret[t].call.grown
            /\ Size(ret[t].val, cfg.w) >= Size(ret[t].call.entry, cfg.w) + MinCapacity

\* C20 (amended): a fromUTF8 that throws IllegalConversionException after
\* its loop leaves the target untrimmed, longer than on entry by the sum of
\* the increments of the call, at least 4 charT, the room the engine did not
\* use included; one that throws it from getDescriptors, an iconv_open
\* having failed, leaves the target as it was on entry.
C20_FailureLength ==
    \A t \in Threads :
        (ret[t].call.op = "fromUTF8" /\ ret[t].ex.type = "IllegalConversionException") =>
            IF ret[t].call.iters >= 1
            THEN /\ Size(ret[t].val, cfg.w) =
                        Size(ret[t].call.entry, cfg.w) + ret[t].call.grown
                 /\ ret[t].call.grown >= ret[t].call.iters * MinCapacity
                 /\ ret[t].val = ret[t].call.mem
                 /\ ret[t].val # ret[t].call.entry
                 /\ Len(ret[t].val) = ret[t].call.outbuf + ret[t].call.outleft
                                          + Len(ret[t].call.entry)
            ELSE /\ ret[t].call.grown = 0
                 /\ ret[t].val = ret[t].call.entry

\* fromUTF8 into a non-empty target has thrown IllegalConversionException
\* after a pass that left room unused.
C20_Witness ==
    \E t \in Threads :
        /\ ret[t].call.op = "fromUTF8"
        /\ ret[t].ex.type = "IllegalConversionException"
        /\ ret[t].call.iters = 1
        /\ ret[t].call.entry # <<>>
        /\ ret[t].call.outleft > 0

=============================================================================
